---- MODULE Spec2Model ----
(***************************************************************************)
(* Player analytics derivation and two-tier caching of the NoverThinker    *)
(* backend: getPlayerAnalytics, calculatePlayerAnalytics, comparePlayers, *)
(* the Redis cache helpers and the Express error boundary.                 *)
(*                                                                         *)
(* Every `await` of a handler is a suspension point, so a handler is split *)
(* into one action per await; requests interleave between those actions.   *)
(*                                                                         *)
(* Numbers: nova_score is DECIMAL(4,1) and is kept in tenths (900 is 90.0);*)
(* the products nova_score * 0.45 etc. are kept in thousandths.            *)
(***************************************************************************)
EXTENDS Integers, Sequences, FiniteSets, TLC

NumPlayers == 2
NumRequests == 2

\* Player identifiers a request may name: 1..NumPlayers have a profile row,
\* identifier 0 has none.
ProfileIds == 1..NumPlayers
PlayerIds == 0..NumPlayers
Requests == 1..NumRequests

\* The raw scores the profile collaborator gives a player over time: every
\* player starts with the first and may be moved to the next.
ScoreHistory ==
  << [nova_score |-> 900, discipline_score |-> 95],
     [nova_score |-> 555, discipline_score |-> 70] >>

AnalyticsTTL == 3600
PlayerTTL == 300

\* CHECK (nova_score >= 0 AND nova_score <= 100), and the same for
\* discipline_score.
MaxScore == 100

NULL == [null |-> TRUE]

VARIABLES
  player_profiles,        \* table player_profiles: ProfileIds -> raw scores
  agent_analytics_cache,  \* table agent_analytics_cache: sequence of rows
  redis,                  \* contents of the Redis server: key -> entry or NULL
  redisClient,            \* redis.js: NULL or "client"
  redisConnected,         \* redis.js: BOOLEAN
  refresh_tokens,         \* table refresh_tokens: sequence of rows
  req                     \* the in-flight requests

vars == <<player_profiles, agent_analytics_cache, redis, redisClient,
          redisConnected, refresh_tokens, req>>

-----------------------------------------------------------------------------
(* Values *)

\* Variant: truncation instead of rounding.
MathRound_Floor(n, d) == n \div d

\* Math.round(n / d) for n >= 0, d > 0: floor(n/d + 1/2).
MathRound(n, d) == (2 * n + d) \div (2 * d)

\* `analytics:${id}`
analyticsKey(id) == <<"analytics", id>>
\* `player:${id}`
playerKey(id) == <<"player", id>>
CacheKeys ==
  { analyticsKey(id) : id \in PlayerIds } \cup
  { playerKey(id) : id \in PlayerIds }

\* new Date() in the application, NOW() in the database.
AppDate == [type |-> "Date", clock |-> "app"]
DbDate == [type |-> "Date", clock |-> "db"]

\* The columns every handler reads from an analytics record.
DerivedFields(a) ==
  [ performance_data    |-> a.performance_data,
    consistency_score   |-> a.consistency_score,
    consistency_level   |-> a.consistency_level,
    consistency_trend   |-> a.consistency_trend,
    work_rate_score     |-> a.work_rate_score,
    work_rate_level     |-> a.work_rate_level,
    work_rate_breakdown |-> a.work_rate_breakdown,
    risk_score          |-> a.risk_score,
    risk_level          |-> a.risk_level,
    risk_factors        |-> a.risk_factors ]

\* Variant: 80 itself is not yet high.
consistencyLevel_Above80(n) ==
  IF n > 800 THEN "high" ELSE IF n >= 600 THEN "medium" ELSE "low"

\* player.nova_score >= 80 ? 'high' : player.nova_score >= 60 ? 'medium' :
\* 'low'
consistencyLevel(n) ==
  IF n >= 800 THEN "high" ELSE IF n >= 600 THEN "medium" ELSE "low"

\* Variant: the fourth weight is 0.2 instead of 0.1.
workRateBreakdown_WeightsOff(d) ==
  [ attendance |-> MathRound(d * 4, 10),
    taskCompletion |-> MathRound(d * 3, 10),
    uploadFrequency |-> MathRound(d * 2, 10),
    discipline |-> MathRound(d * 2, 10) ]

\* work_rate_breakdown: Math.round(player.discipline_score * 0.4), ...
workRateBreakdown(d) ==
  [ attendance |-> MathRound(d * 4, 10),
    taskCompletion |-> MathRound(d * 3, 10),
    uploadFrequency |-> MathRound(d * 2, 10),
    discipline |-> MathRound(d * 1, 10) ]

\* Variant: 80 itself is not yet low risk.
riskLevel_Above80(d) ==
  IF d > 80 THEN "low" ELSE IF d >= 60 THEN "medium" ELSE "high"

\* player.discipline_score >= 80 ? 'low' : player.discipline_score >= 60 ?
\* 'medium' : 'high'
riskLevel(d) ==
  IF d >= 80 THEN "low" ELSE IF d >= 60 THEN "medium" ELSE "high"

\* The object literal of calculatePlayerAnalytics.
calculatePlayerAnalytics(player) ==
  LET n == player.nova_score
      d == player.discipline_score
  IN [ performance_data |->
         [ overall |-> n, matchScore |-> n * 45, taskScore |-> n * 25,
           videoScore |-> n * 15, physicalScore |-> n * 15 ],
       consistency_score |-> MathRound(n * 9, 100),
       consistency_level |-> consistencyLevel(n),
       consistency_trend |-> "stable",
       work_rate_score |-> d,
       work_rate_level |->
         IF d >= 90 THEN "elite" ELSE IF d >= 75 THEN "high" ELSE "medium",
       work_rate_breakdown |-> workRateBreakdown(d),
       risk_score |-> 100 - MathRound(100 - d, 2),
       risk_level |-> riskLevel(d),
       risk_factors |->
         [ consistency |-> IF n >= 700 THEN "low" ELSE "medium",
           discipline |-> IF d >= 80 THEN "low" ELSE "medium",
           engagement |-> "medium" ],
       last_calculated_at |-> AppDate ]

\* JSON.parse(JSON.stringify(v)) of an analytics record or of a player-detail
\* response: a Date becomes its ISO string, every other field survives.
JSONRoundTrip(v) ==
  IF "last_calculated_at" \in DOMAIN v
    THEN [ v EXCEPT !.last_calculated_at =
                       [type |-> "string", clock |-> @.clock] ]
  ELSE [ v EXCEPT !.player.updated_at =
                     [type |-> "string", clock |-> @.clock] ]

JSONstringify(v) == [json |-> JSONRoundTrip(v)]

\* Variant: parsing loses the consistency score.
JSONparse_Lossy(s) == [s.json EXCEPT !.consistency_score = 0]

JSONparse(s) == s.json

-----------------------------------------------------------------------------
(* The durable analytics store *)

RowsOf(table, id) == { i \in 1..Len(table) : table[i].player_id = id }

\* SELECT * FROM agent_analytics_cache WHERE player_id = $1
selectAnalytics(table, id) ==
  LET idx == RowsOf(table, id)
  IN [ i \in 1..Cardinality(idx) |->
         table[CHOOSE k \in idx : Cardinality({ j \in idx : j < k }) = i - 1] ]

\* The row the INSERT writes: the eleven listed columns, last_calculated_at
\* from the column default or NOW().
analyticsRow(playerId, analytics) ==
  DerivedFields(analytics) @@
  [ player_id |-> playerId, last_calculated_at |-> DbDate ]

\* Variant: a plain INSERT, without the ON CONFLICT clause.
upsertAnalytics_InsertOnly(table, playerId, analytics) ==
  Append(table, [ player_id |-> playerId, last_calculated_at |-> DbDate ]
                @@ DerivedFields(analytics))

\* Variant: the INSERT is never issued.
upsertAnalytics_NoWrite(table, playerId, analytics) == table

\* INSERT ... ON CONFLICT (player_id) DO UPDATE SET ...
upsertAnalytics(table, playerId, analytics) ==
  IF RowsOf(table, playerId) = {}
    THEN Append(table, analyticsRow(playerId, analytics))
    ELSE [ i \in 1..Len(table) |->
             IF table[i].player_id = playerId
               THEN analyticsRow(playerId, analytics)
               ELSE table[i] ]

-----------------------------------------------------------------------------
(* redis.js: cache helpers *)

\* Variant: cache.get without the connection guard.
cache_get_NoGuard(key, outcome) ==
  IF outcome = "throw" THEN NULL
  ELSE IF redis[key] = NULL THEN NULL
  ELSE redis[key].value.json

\* cache.get(key); outcome is whether redisClient.get resolves or rejects.
cache_get(key, outcome) ==
  IF redisClient = NULL \/ ~redisConnected THEN NULL
  ELSE IF outcome = "throw" THEN NULL
  ELSE IF redis[key] = NULL THEN NULL
  ELSE JSONparse(redis[key].value)

\* Variant: cache.set stores with the player-detail TTL of 300 seconds.
cache_set_WrongTtl(key, value, ttlSeconds, outcome) ==
  IF redisClient = NULL \/ ~redisConnected \/ outcome = "throw"
    THEN [ok |-> FALSE, redis |-> redis]
  ELSE [ ok |-> TRUE,
         redis |-> [redis EXCEPT ![key] =
                      [ value |-> [json |-> JSONRoundTrip(value)],
                        ttl |-> 300 ]] ]

\* Variant: cache.set reports success without storing the value.
cache_set_NoWrite(key, value, ttlSeconds, outcome) ==
  IF redisClient = NULL \/ ~redisConnected \/ outcome = "throw"
    THEN [ok |-> FALSE, redis |-> redis]
  ELSE [ok |-> TRUE, redis |-> redis]

\* cache.set(key, value, ttlSeconds): the value returned and the server's
\* contents afterwards.
cache_set(key, value, ttlSeconds, outcome) ==
  IF redisClient = NULL \/ ~redisConnected
    THEN [ok |-> FALSE, redis |-> redis]
  ELSE IF outcome = "throw"
    THEN [ok |-> FALSE, redis |-> redis]
  ELSE [ ok |-> TRUE,
         redis |-> [redis EXCEPT ![key] =
                      [value |-> JSONstringify(value), ttl |-> ttlSeconds]] ]

RedisOutcomes == {"ok", "throw"}

-----------------------------------------------------------------------------
(* errorHandler.js *)

\* Variant: the constructor does not keep the status code.
AppError_NoStatus(statusCode) == [statusCode |-> 0, code |-> ""]

\* new AppError(message, statusCode, code = null); a missing statusCode or
\* code is the falsy 0 or "".
AppError(statusCode) == [statusCode |-> statusCode, code |-> ""]

\* An error thrown by the database client: it carries no statusCode.
DbError == [statusCode |-> 0, code |-> "ECONNREFUSED"]

\* Variant: errorHandler without the default status of 500.
errorHandler_NoDefault(err) ==
  [ status |-> err.statusCode, success |-> FALSE, data |-> NULL ]

\* errorHandler: the response sent for err.
errorHandler(err) ==
  LET statusCode == IF err.statusCode # 0 THEN err.statusCode ELSE 500
  IN [ status |->
         IF err.code = "23503" THEN 400
         ELSE IF err.code = "23505" THEN 409
         ELSE statusCode,
       success |-> FALSE,
       data |-> NULL ]

\* Math.round of the mean of six attributes; a missing one (SQL NULL, the
\* empty sequence) is 0 in the JavaScript sum.
ToNumber(x) == IF x = <<>> THEN 0 ELSE x[1]

-----------------------------------------------------------------------------
(* Tokens and the table refresh_tokens *)

\* jwt.sign({ userId, type: 'refresh' }, ...): the refresh token signed for a
\* user; iat tells apart the tokens signed for one user.
signRefresh(userId, iat) ==
  [kind |-> "valid", userId |-> userId, type |-> "refresh", iat |-> iat]

\* jwt.sign({ userId }, ...): an access token carries no type.
signAccess(userId, iat) ==
  [kind |-> "valid", userId |-> userId, type |-> "", iat |-> iat]

\* bcrypt.hash(token, 10)
bcrypt_hash(token) == [hash_of |-> token]

\* bcrypt.compare(token, token_hash)
bcrypt_compare(token, token_hash) == token_hash = bcrypt_hash(token)

\* A row of refresh_tokens as INSERT makes it: is_revoked DEFAULT FALSE.
refreshTokenRow(id, userId, token_hash) ==
  [ id |-> id, user_id |-> userId, token_hash |-> token_hash,
    is_revoked |-> FALSE ]

\* The table after login: user 1 holds a refresh token, and an earlier one
\* of theirs was revoked at logout.
IssuedTokens ==
  << [ refreshTokenRow(1, 1, bcrypt_hash(signRefresh(1, 0)))
         EXCEPT !.is_revoked = TRUE ],
     refreshTokenRow(2, 1, bcrypt_hash(signRefresh(1, 1))) >>

-----------------------------------------------------------------------------
(* Requests *)

IdleRequest ==
  [ pc |-> "idle", handler |-> "none", resp |-> NULL,
    \* locals of getPlayerAnalytics
    id |-> 0, player |-> NULL, analytics |-> NULL,
    \* locals of comparePlayers
    playerIds |-> NULL, rows |-> <<>>, analyticsData |-> <<>>,
    \* locals of getPlayer
    responseData |-> NULL,
    \* locals of refreshToken
    token |-> NULL, validToken |-> NULL, tokens |-> NULL,
    \* the route taken, req.headers.authorization and req.user
    route |-> "none", authorization |-> NULL, user |-> NULL,
    \* history of the request, written by the steps that act
    source |-> "none",        \* tier that supplied analytics
    cacheGot |-> "none",      \* cache.get: "hit", "miss", "down", "threw"
    setCond |-> "none",       \* cache.set ran: "up", "down", "threw"
    setOk |-> "none",         \* cache.set returned: "true", "false"
    failedAt |-> "none",      \* the query that threw
    rowAtStart |-> FALSE,     \* a durable record existed when it started
    completed |-> <<>> ]      \* fan-out lookups in the order they resolved

Init ==
  /\ player_profiles = [p \in ProfileIds |-> ScoreHistory[1]]
  /\ agent_analytics_cache = <<>>
  /\ redis = [k \in CacheKeys |-> NULL]
  /\ \/ redisClient = NULL /\ redisConnected = FALSE
     \/ redisClient = [client |-> TRUE] /\ redisConnected \in BOOLEAN
  /\ refresh_tokens = IssuedTokens
  /\ req = [r \in Requests |-> IdleRequest]

\* asyncHandler: a rejection of the handler goes to next(err), which reaches
\* errorHandler.
asyncHandlerCatch(r, err, at) ==
  req' = [req EXCEPT ![r].pc = "done", ![r].resp = errorHandler(err),
                     ![r].failedAt = at]

\* getPlayerAnalytics up to its first await: const { id } = req.params.
getPlayerAnalytics_enter(id) ==
  [ IdleRequest EXCEPT !.pc = "profile", !.id = id,
      !.handler = "getPlayerAnalytics",
      !.rowAtStart = RowsOf(agent_analytics_cache, id) # {} ]

\* A request for GET /api/players/:id/analytics arrives. Request slots are
\* interchangeable and each serves one request, so they are taken in order.
getPlayerAnalytics_start(r, id) ==
  /\ req[r].pc = "idle"
  /\ \A q \in Requests : q < r => req[q].pc # "idle"
  /\ req' = [req EXCEPT ![r] = getPlayerAnalytics_enter(id)]
  /\ UNCHANGED refresh_tokens
  /\ UNCHANGED <<player_profiles, agent_analytics_cache, redis, redisClient,
                 redisConnected>>

\* await query('SELECT id, nova_score, discipline_score FROM player_profiles')
getPlayerAnalytics_profile(r) ==
  /\ req[r].pc = "profile"
  /\ \/ asyncHandlerCatch(r, DbError, "profile")
     \/ /\ req[r].id \notin ProfileIds
        /\ asyncHandlerCatch(r, AppError(404), "none")
     \/ /\ req[r].id \in ProfileIds
        /\ req' = [req EXCEPT ![r].pc = "cacheGet",
                              ![r].player = player_profiles[req[r].id]]
  /\ UNCHANGED refresh_tokens
  /\ UNCHANGED <<player_profiles, agent_analytics_cache, redis, redisClient,
                 redisConnected>>

\* Variant: the durable store is consulted even after a fast-cache hit.
needsLookup_Always(analytics) == TRUE

\* if (!analytics): the durable store is consulted.
needsLookup(analytics) == analytics = NULL

\* let analytics = await cache.get(cacheKey); if (!analytics) { ... }
getPlayerAnalytics_cacheGet(r) ==
  /\ req[r].pc = "cacheGet"
  /\ \E outcome \in RedisOutcomes :
       LET cached == cache_get(analyticsKey(req[r].id), outcome)
           got == IF redisClient = NULL \/ ~redisConnected THEN "down"
                  ELSE IF outcome = "throw" THEN "threw"
                  ELSE IF cached = NULL THEN "miss" ELSE "hit"
       IN req' = [req EXCEPT
            ![r].analytics = cached,
            ![r].cacheGot = got,
            ![r].source = IF cached # NULL THEN "fast" ELSE "none",
            ![r].pc = IF needsLookup(cached) THEN "storeRead" ELSE "matches"]
  /\ UNCHANGED refresh_tokens
  /\ UNCHANGED <<player_profiles, agent_analytics_cache, redis, redisClient,
                 redisConnected>>

\* Variant: a stored record is never taken as a hit.
durableHit_Never(rows) == FALSE

\* if (analyticsResult.rows.length > 0)
durableHit(rows) == Len(rows) > 0

\* await query('SELECT * FROM agent_analytics_cache WHERE player_id = $1');
\* on a row, analytics = rows[0]; on none, calculatePlayerAnalytics builds the
\* record and reaches its INSERT.
getPlayerAnalytics_storeRead(r) ==
  /\ req[r].pc = "storeRead"
  /\ \/ asyncHandlerCatch(r, DbError, "storeRead")
     \/ LET rows == selectAnalytics(agent_analytics_cache, req[r].id)
        IN IF durableHit(rows)
             THEN req' = [req EXCEPT ![r].analytics = rows[1],
                                     ![r].source = "durable",
                                     ![r].pc = "cacheSet"]
             ELSE req' = [req EXCEPT
                    ![r].analytics = calculatePlayerAnalytics(req[r].player),
                    ![r].source = "derived",
                    ![r].pc = "upsert"]
  /\ UNCHANGED refresh_tokens
  /\ UNCHANGED <<player_profiles, agent_analytics_cache, redis, redisClient,
                 redisConnected>>

\* calculatePlayerAnalytics: await query('INSERT INTO agent_analytics_cache
\* ... ON CONFLICT (player_id) DO UPDATE ...'); return analytics. A rejection
\* is not caught here nor in getPlayerAnalytics.
calculatePlayerAnalytics_store(r) ==
  /\ req[r].pc = "upsert"
  /\ \/ /\ asyncHandlerCatch(r, DbError, "upsert")
        /\ UNCHANGED agent_analytics_cache
     \/ /\ agent_analytics_cache' =
             upsertAnalytics(agent_analytics_cache, req[r].id, req[r].analytics)
        /\ req' = [req EXCEPT ![r].pc = "cacheSet"]
  /\ UNCHANGED refresh_tokens
  /\ UNCHANGED <<player_profiles, redis, redisClient, redisConnected>>

\* await cache.set(cacheKey, analytics, 3600)
getPlayerAnalytics_cacheSet(r) ==
  /\ req[r].pc = "cacheSet"
  /\ \E outcome \in RedisOutcomes :
       LET res == cache_set(analyticsKey(req[r].id), req[r].analytics,
                            AnalyticsTTL, outcome)
       IN /\ redis' = res.redis
          /\ req' = [req EXCEPT ![r].pc = "matches",
                ![r].setCond = IF redisClient = NULL \/ ~redisConnected
                                 THEN "down"
                               ELSE IF outcome = "throw" THEN "threw" ELSE "up",
                ![r].setOk = IF res.ok THEN "true" ELSE "false"]
  /\ UNCHANGED refresh_tokens
  /\ UNCHANGED <<player_profiles, agent_analytics_cache, redisClient,
                 redisConnected>>

\* Variant: novaScore is taken from the analytics record.
analyticsResponse_NovaFromRecord(id, player, analytics) ==
  [ status |-> 200,
    success |-> TRUE,
    data |->
      [ playerId |-> id,
        novaScore |-> analytics.performance_data.overall,
        performance |-> analytics.performance_data,
        consistency |-> [ score |-> analytics.consistency_score,
                          level |-> analytics.consistency_level,
                          trend |-> analytics.consistency_trend ],
        workRate |-> [ score |-> analytics.work_rate_score,
                       level |-> analytics.work_rate_level,
                       breakdown |-> analytics.work_rate_breakdown ],
        risk |-> [ score |-> analytics.risk_score,
                   level |-> analytics.risk_level,
                   factors |-> analytics.risk_factors ],
        lastCalculated |-> JSONRoundTrip(analytics).last_calculated_at ] ]

\* The body of res.json({ success: true, data: { ... } }) as serialised.
analyticsResponse(id, player, analytics) ==
  [ status |-> 200,
    success |-> TRUE,
    data |->
      [ playerId |-> id,
        novaScore |-> player.nova_score,
        performance |-> analytics.performance_data,
        consistency |-> [ score |-> analytics.consistency_score,
                          level |-> analytics.consistency_level,
                          trend |-> analytics.consistency_trend ],
        workRate |-> [ score |-> analytics.work_rate_score,
                       level |-> analytics.work_rate_level,
                       breakdown |-> analytics.work_rate_breakdown ],
        risk |-> [ score |-> analytics.risk_score,
                   level |-> analytics.risk_level,
                   factors |-> analytics.risk_factors ],
        lastCalculated |-> JSONRoundTrip(analytics).last_calculated_at ] ]

\* await query('SELECT ... FROM match_performances ...'); res.json(...)
getPlayerAnalytics_respond(r) ==
  /\ req[r].pc = "matches"
  /\ \/ asyncHandlerCatch(r, DbError, "matches")
     \/ req' = [req EXCEPT ![r].pc = "done",
           ![r].resp = analyticsResponse(req[r].id, req[r].player,
                                         req[r].analytics)]
  /\ UNCHANGED refresh_tokens
  /\ UNCHANGED <<player_profiles, agent_analytics_cache, redis, redisClient,
                 redisConnected>>

-----------------------------------------------------------------------------
(* comparePlayers *)

\* Table player_attributes: the six attributes of a player, each <<n>> or the
\* SQL NULL <<>>; a player without a row is absent from the table.
NoAttributes ==
  [ pace |-> <<>>, shooting |-> <<>>, passing |-> <<>>, dribbling |-> <<>>,
    defending |-> <<>>, physical |-> <<>> ]

player_attributes ==
  [ p \in {1} |->
      [ pace |-> <<71>>, shooting |-> <<64>>, passing |-> <<80>>,
        dribbling |-> <<77>>, defending |-> <<45>>, physical |-> <<68>> ] ]

\* One row of the comparePlayers join for player p.
playerRow(p) ==
  [ id |-> p, nova_score |-> player_profiles[p].nova_score ] @@
  (IF p \in DOMAIN player_attributes THEN player_attributes[p]
   ELSE NoAttributes)

\* Request bodies: playerIds missing, a string, or an array of identifiers.
CompareInputs ==
  { [kind |-> "missing", items |-> <<>>],
    [kind |-> "string", items |-> <<>>],
    [kind |-> "array", items |-> <<>>],
    [kind |-> "array", items |-> <<1>>],
    [kind |-> "array", items |-> <<1, 2>>],
    [kind |-> "array", items |-> <<2, 1>>],
    [kind |-> "array", items |-> <<0, 1>>],
    [kind |-> "array", items |-> <<1, 1>>],
    [kind |-> "array", items |-> <<1, 2, 1, 2, 1>>] }

Range(f) == { f[i] : i \in DOMAIN f }

\* The orders in which the store may return the rows of a set of players.
RowOrders(ids) ==
  { o \in [1..Cardinality(ids) -> ids] : Range(o) = ids }

\* Variant: the first lookup's result, whoever it is for.
findAnalytics_First(analyticsData, id) ==
  IF analyticsData = <<>> THEN NULL ELSE analyticsData[1].analytics

\* analyticsData.find(a => a.playerId === player.id)?.analytics; undefined
\* is falsy like null.
findAnalytics(analyticsData, id) ==
  LET found == { i \in DOMAIN analyticsData :
                   /\ analyticsData[i] # NULL
                   /\ analyticsData[i].playerId = id }
  IN IF found = {} THEN NULL
     ELSE analyticsData[CHOOSE i \in found : \A j \in found : i <= j].analytics

\* One element of `comparison`. A JSON number is <<n>>, as in the table.
comparisonView(player, analyticsData) ==
  LET playerAnalytics == findAnalytics(analyticsData, player.id)
  IN [ id |-> player.id,
       novaScore |-> player.nova_score,
       overall |->
         << MathRound(ToNumber(player.pace) + ToNumber(player.shooting)
                      + ToNumber(player.passing) + ToNumber(player.dribbling)
                      + ToNumber(player.defending) + ToNumber(player.physical),
                      6) >>,
       attributes |->
         [ pace |-> player.pace, shooting |-> player.shooting,
           passing |-> player.passing, dribbling |-> player.dribbling,
           defending |-> player.defending, physical |-> player.physical ],
       consistency |->
         IF playerAnalytics # NULL
           THEN [ score |-> playerAnalytics.consistency_score,
                  level |-> playerAnalytics.consistency_level ]
           ELSE NULL,
       workRate |->
         IF playerAnalytics # NULL
           THEN [ score |-> playerAnalytics.work_rate_score,
                  level |-> playerAnalytics.work_rate_level ]
           ELSE NULL,
       risk |->
         IF playerAnalytics # NULL
           THEN [ score |-> playerAnalytics.risk_score,
                  level |-> playerAnalytics.risk_level ]
           ELSE NULL ]

\* Variant: no upper limit on the number of identifiers.
invalidPlayerIds_NoUpper(playerIds) ==
  playerIds.kind # "array" \/ Len(playerIds.items) < 2

\* !playerIds || !Array.isArray(playerIds) || playerIds.length < 2 ||
\* playerIds.length > 4
invalidPlayerIds(playerIds) ==
  \/ playerIds.kind = "missing"
  \/ playerIds.kind # "array"
  \/ Len(playerIds.items) < 2
  \/ Len(playerIds.items) > 4

\* comparePlayers up to its first await: the 400 of the length check, or the
\* players query issued.
comparePlayers_enter(playerIds) ==
  IF invalidPlayerIds(playerIds)
    THEN [ IdleRequest EXCEPT !.pc = "done",
             !.handler = "comparePlayers",
             !.playerIds = playerIds,
             !.resp = errorHandler(AppError(400)) ]
  ELSE [ IdleRequest EXCEPT !.pc = "players",
           !.handler = "comparePlayers",
           !.playerIds = playerIds ]

\* A request for POST /api/players/compare arrives; the cardinality check
\* runs before the first await.
comparePlayers_start(r, playerIds) ==
  /\ req[r].pc = "idle"
  /\ \A q \in Requests : q < r => req[q].pc # "idle"
  /\ req' = [req EXCEPT ![r] = comparePlayers_enter(playerIds)]
  /\ UNCHANGED refresh_tokens
  /\ UNCHANGED <<player_profiles, agent_analytics_cache, redis, redisClient,
                 redisConnected>>

\* await query('SELECT ... FROM player_profiles pp ... WHERE pp.id = ANY($1)');
\* with two rows or more, the per-player analytics queries are all issued.
comparePlayers_players(r) ==
  /\ req[r].pc = "players"
  /\ \/ asyncHandlerCatch(r, DbError, "players")
     \/ \E order \in RowOrders(Range(req[r].playerIds.items) \cap ProfileIds) :
          LET rows == [i \in DOMAIN order |-> playerRow(order[i])]
          IN IF Len(rows) < 2
               THEN asyncHandlerCatch(r, AppError(404), "none")
               ELSE req' = [req EXCEPT ![r].pc = "analytics",
                      ![r].rows = rows,
                      ![r].analyticsData = [i \in DOMAIN rows |-> NULL]]
  /\ UNCHANGED refresh_tokens
  /\ UNCHANGED <<player_profiles, agent_analytics_cache, redis, redisClient,
                 redisConnected>>

\* Variant: the lookup never yields a record.
firstRowOrNull_Never(rows) == NULL

\* analyticsResult.rows[0] || null
firstRowOrNull(rows) == IF Len(rows) > 0 THEN rows[1] ELSE NULL

\* One 'SELECT * FROM agent_analytics_cache WHERE player_id = $1' of the
\* fan-out settles; when the last one has, Promise.all resolves and the
\* response is assembled and sent. A rejection rejects Promise.all.
comparePlayers_analytics(r, i) ==
  /\ req[r].pc = "analytics"
  /\ i \in DOMAIN req[r].analyticsData
  /\ req[r].analyticsData[i] = NULL
  /\ \/ asyncHandlerCatch(r, DbError, "analytics")
     \/ LET found == selectAnalytics(agent_analytics_cache, req[r].rows[i].id)
            data == [req[r].analyticsData EXCEPT ![i] =
                       [ playerId |-> req[r].rows[i].id,
                         analytics |-> firstRowOrNull(found) ]]
        IN IF \E j \in DOMAIN data : data[j] = NULL
             THEN req' = [req EXCEPT ![r].analyticsData = data,
                                     ![r].completed = Append(@, i)]
             ELSE req' = [req EXCEPT ![r].pc = "done",
                    ![r].analyticsData = data,
                    ![r].completed = Append(@, i),
                    ![r].resp =
                      [ status |-> 200, success |-> TRUE,
                        data |-> [ players |->
                                     [ k \in DOMAIN req[r].rows |->
                                         comparisonView(req[r].rows[k], data) ],
                                   comparedAt |-> AppDate.clock ] ]]
  /\ UNCHANGED refresh_tokens
  /\ UNCHANGED <<player_profiles, agent_analytics_cache, redis, redisClient,
                 redisConnected>>

-----------------------------------------------------------------------------
(* getPlayer *)

\* Tables top_player_videos (joined with videos) and nova_score_history: the
\* rows of a player, in the order of the query's ORDER BY.
top_player_videos ==
  [ p \in ProfileIds |-> IF p = 1 THEN <<"video-a", "video-b">> ELSE <<>> ]

nova_score_history ==
  [ p \in ProfileIds |-> IF p = 1 THEN <<[nova_score |-> 900]>> ELSE <<>> ]

\* The row of the player query: pp.* with the joined attributes.
playerDetailRow(p) ==
  [ id |-> p,
    nova_score |-> player_profiles[p].nova_score,
    discipline_score |-> player_profiles[p].discipline_score,
    updated_at |-> DbDate ] @@
  (IF p \in DOMAIN player_attributes THEN player_attributes[p]
   ELSE NoAttributes)

\* const responseData = { player: {...}, topVideos, novaScoreHistory }
playerResponseData(player, videos, history) ==
  [ player |-> player, topVideos |-> videos, novaScoreHistory |-> history ]

\* A request for GET /api/players/:id arrives.
getPlayer_start(r, id) ==
  /\ req[r].pc = "idle"
  /\ \A q \in Requests : q < r => req[q].pc # "idle"
  /\ req' = [req EXCEPT ![r] =
       [ IdleRequest EXCEPT !.pc = "playerCacheGet", !.id = id,
           !.handler = "getPlayer" ]]
  /\ UNCHANGED refresh_tokens
  /\ UNCHANGED <<player_profiles, agent_analytics_cache, redis, redisClient,
                 redisConnected>>

\* Variant: a cached response is ignored and the store is queried.
cachedResponse_Ignored(r, cached) ==
  [req[r] EXCEPT !.pc = "playerQuery"]

\* if (cached) { return res.json({ success: true, data: cached, cached: true }) }
cachedResponse(r, cached) ==
  IF cached # NULL
    THEN [ req[r] EXCEPT !.pc = "done",
             !.resp = [ status |-> 200, success |-> TRUE, data |-> cached,
                        cached |-> TRUE ] ]
  ELSE [ req[r] EXCEPT !.pc = "playerQuery" ]

\* const cached = await cache.get(cacheKey)
getPlayer_cacheGet(r) ==
  /\ req[r].pc = "playerCacheGet"
  /\ \E outcome \in RedisOutcomes :
       LET cached == cache_get(playerKey(req[r].id), outcome)
           got == IF redisClient = NULL \/ ~redisConnected THEN "down"
                  ELSE IF outcome = "throw" THEN "threw"
                  ELSE IF cached = NULL THEN "miss" ELSE "hit"
       IN req' = [req EXCEPT ![r] =
            [ cachedResponse(r, cached) EXCEPT !.cacheGot = got,
                !.source = IF cached # NULL THEN "fast" ELSE "none" ]]
  /\ UNCHANGED refresh_tokens
  /\ UNCHANGED <<player_profiles, agent_analytics_cache, redis, redisClient,
                 redisConnected>>

\* await query('SELECT pp.*, ... FROM player_profiles pp ... WHERE pp.id = $1')
getPlayer_player(r) ==
  /\ req[r].pc = "playerQuery"
  /\ \/ asyncHandlerCatch(r, DbError, "player")
     \/ IF req[r].id \in ProfileIds
          THEN req' = [req EXCEPT ![r].pc = "videos",
                         ![r].player = playerDetailRow(req[r].id)]
        ELSE asyncHandlerCatch(r, AppError(404), "none")
  /\ UNCHANGED refresh_tokens
  /\ UNCHANGED <<player_profiles, agent_analytics_cache, redis, redisClient,
                 redisConnected>>

\* await query('SELECT ... FROM top_player_videos tpv JOIN videos v ...')
getPlayer_videos(r) ==
  /\ req[r].pc = "videos"
  /\ \/ asyncHandlerCatch(r, DbError, "videos")
     \/ req' = [req EXCEPT ![r].pc = "history",
                  ![r].rows = top_player_videos[req[r].id]]
  /\ UNCHANGED refresh_tokens
  /\ UNCHANGED <<player_profiles, agent_analytics_cache, redis, redisClient,
                 redisConnected>>

\* await query('SELECT ... FROM nova_score_history ...'); responseData = ...
getPlayer_history(r) ==
  /\ req[r].pc = "history"
  /\ \/ asyncHandlerCatch(r, DbError, "history")
     \/ req' = [req EXCEPT ![r].pc = "playerCacheSet",
                  ![r].responseData =
                     playerResponseData(req[r].player, req[r].rows,
                                        nova_score_history[req[r].id])]
  /\ UNCHANGED refresh_tokens
  /\ UNCHANGED <<player_profiles, agent_analytics_cache, redis, redisClient,
                 redisConnected>>

\* await cache.set(cacheKey, responseData, 300)
getPlayer_cacheSet(r) ==
  /\ req[r].pc = "playerCacheSet"
  /\ \E outcome \in RedisOutcomes :
       LET res == cache_set(playerKey(req[r].id), req[r].responseData,
                            PlayerTTL, outcome)
       IN /\ redis' = res.redis
          /\ req' = [req EXCEPT ![r].pc = "playerRespond",
                ![r].setCond = IF redisClient = NULL \/ ~redisConnected
                                 THEN "down"
                               ELSE IF outcome = "throw" THEN "threw" ELSE "up",
                ![r].setOk = IF res.ok THEN "true" ELSE "false"]
  /\ UNCHANGED refresh_tokens
  /\ UNCHANGED <<player_profiles, agent_analytics_cache, redisClient,
                 redisConnected>>

\* res.json({ success: true, data: responseData })
getPlayer_respond(r) ==
  /\ req[r].pc = "playerRespond"
  /\ req' = [req EXCEPT ![r].pc = "done",
        ![r].resp = [ status |-> 200, success |-> TRUE,
                      data |-> req[r].responseData ]]
  /\ UNCHANGED refresh_tokens
  /\ UNCHANGED <<player_profiles, agent_analytics_cache, redis, redisClient,
                 redisConnected>>

-----------------------------------------------------------------------------
(* routes/players.js, middleware/validation.js, middleware/auth.js *)

\* Table users: accounts 1 and 2 may use the agent routes, 3 is a player,
\* 4 is a deactivated agent; no other id has a row.
users ==
  [ u \in 1..4 |->
      [ id |-> u,
        user_type |-> IF u = 2 THEN "admin" ELSE IF u = 3 THEN "player"
                      ELSE "agent",
        is_active |-> u # 4 ] ]

\* The Authorization headers a request may carry: none, one of another
\* scheme, and a Bearer token that is malformed, expired or valid; a signed
\* token names a user id, which may have no users row (5).
Tokens ==
  { [kind |-> "malformed", userId |-> 0] } \cup
  [kind : {"expired", "valid"}, userId : 1..5]

Authorizations ==
  { [scheme |-> "none", token |-> NULL],
    [scheme |-> "Basic", token |-> NULL] } \cup
  [scheme : {"Bearer"}, token : Tokens]

\* A :id that is not a UUID.
MalformedId == -1

\* isValidUUID(value)
isValidUUID(id) == id # MalformedId

\* jwt.verify(token, JWT_SECRET): the payload, or the name of the error
\* thrown.
jwt_verify(token) ==
  IF token.kind = "malformed"
    THEN [ok |-> FALSE, name |-> "JsonWebTokenError", userId |-> 0]
  ELSE IF token.kind = "expired"
    THEN [ok |-> FALSE, name |-> "TokenExpiredError", userId |-> 0]
  ELSE [ok |-> TRUE, name |-> "", userId |-> token.userId]

\* res.status(statusCode).json({ success: false, error })
middlewareReject(statusCode) ==
  [status |-> statusCode, success |-> FALSE, data |-> NULL]

\* authenticate up to its await: the response it sends, or NULL when the
\* users query is issued.
authenticate_header(authorization) ==
  IF authorization.scheme # "Bearer" THEN middlewareReject(401)
  ELSE IF ~jwt_verify(authorization.token).ok THEN middlewareReject(401)
  ELSE NULL

\* Variant: every authenticated user is let through.
authorize_AnyRole(user, allowedRoles) ==
  IF user = NULL THEN middlewareReject(401) ELSE NULL

\* authorize(...allowedRoles): the response it sends, or NULL for next().
authorize(user, allowedRoles) ==
  IF user = NULL THEN middlewareReject(401)
  ELSE IF user.userType \notin allowedRoles THEN middlewareReject(403)
  ELSE NULL

AgentRoles == {"agent", "admin"}

\* The request as the router receives it.
routedRequest(route, authorization) ==
  [ IdleRequest EXCEPT !.route = route, !.authorization = authorization ]

\* router.get('/:id/analytics', validate(schemas.uuidParam), authenticate, ...)
\* up to the await of authenticate.
analyticsRoute(r, id, authorization) ==
  /\ req[r].pc = "idle"
  /\ \A q \in Requests : q < r => req[q].pc # "idle"
  /\ LET rejected == IF ~isValidUUID(id) THEN middlewareReject(400)
                     ELSE authenticate_header(authorization)
     IN req' = [req EXCEPT ![r] =
          [ routedRequest("analytics", authorization) EXCEPT
              !.id = id,
              !.pc = IF rejected = NULL THEN "authenticate" ELSE "done",
              !.resp = rejected ]]
  /\ UNCHANGED refresh_tokens
  /\ UNCHANGED <<player_profiles, agent_analytics_cache, redis, redisClient,
                 redisConnected>>

\* router.post('/compare', authenticate, authorize('agent', 'admin'), ...)
\* up to the await of authenticate.
compareRoute(r, playerIds, authorization) ==
  /\ req[r].pc = "idle"
  /\ \A q \in Requests : q < r => req[q].pc # "idle"
  /\ LET rejected == authenticate_header(authorization)
     IN req' = [req EXCEPT ![r] =
          [ routedRequest("compare", authorization) EXCEPT
              !.playerIds = playerIds,
              !.pc = IF rejected = NULL THEN "authenticate" ELSE "done",
              !.resp = rejected ]]
  /\ UNCHANGED refresh_tokens
  /\ UNCHANGED <<player_profiles, agent_analytics_cache, redis, redisClient,
                 redisConnected>>

\* authenticate after `await query('SELECT ... FROM users WHERE id = $1')`,
\* then authorize and, through next(), the handler up to its first await.
authenticate_user(r) ==
  /\ req[r].pc = "authenticate"
  /\ \/ req' = [req EXCEPT ![r].pc = "done",
                  ![r].resp = middlewareReject(500),
                  ![r].failedAt = "users"]
     \/ LET userId == jwt_verify(req[r].authorization.token).userId
            rows == IF userId \in DOMAIN users THEN <<users[userId]>>
                    ELSE <<>>
            user == [id |-> rows[1].id, userType |-> rows[1].user_type]
        IN IF Len(rows) = 0 \/ ~rows[1].is_active
             THEN req' = [req EXCEPT ![r].pc = "done",
                            ![r].resp = middlewareReject(401)]
           ELSE IF authorize(user, AgentRoles) # NULL
             THEN req' = [req EXCEPT ![r].pc = "done", ![r].user = user,
                            ![r].resp = authorize(user, AgentRoles)]
           ELSE req' = [req EXCEPT ![r] =
                  [ (IF req[r].route = "analytics"
                       THEN getPlayerAnalytics_enter(req[r].id)
                     ELSE comparePlayers_enter(req[r].playerIds))
                    EXCEPT !.route = req[r].route,
                           !.authorization = req[r].authorization,
                           !.user = user ]]
  /\ UNCHANGED refresh_tokens
  /\ UNCHANGED <<player_profiles, agent_analytics_cache, redis, redisClient,
                 redisConnected>>

-----------------------------------------------------------------------------
(* authController.js: refreshToken *)

\* The refreshToken fields of the request bodies: missing, not a JWT, an
\* access token, the revoked refresh token and the live one.
RefreshInputs ==
  { NULL,
    [kind |-> "malformed", userId |-> 0, type |-> "", iat |-> 0],
    signAccess(1, 1), signRefresh(1, 0), signRefresh(1, 1) }

\* generateTokens(userId) in request r: the tokens signed at that moment.
generateTokens(userId, r) ==
  [ accessToken |-> signAccess(userId, r + 1),
    refreshToken |-> signRefresh(userId, r + 1) ]

\* POST /api/auth/refresh arrives: the checks before the first await.
refreshToken_start(r, token) ==
  /\ req[r].pc = "idle"
  /\ \A q \in Requests : q < r => req[q].pc # "idle"
  /\ LET base == [ IdleRequest EXCEPT !.handler = "refreshToken",
                                      !.token = token ]
     IN IF token = NULL
          THEN req' = [req EXCEPT ![r] =
                 [ base EXCEPT !.pc = "done",
                               !.resp = errorHandler(AppError(400)) ]]
        ELSE IF ~jwt_verify(token).ok \/ token.type # "refresh"
          THEN req' = [req EXCEPT ![r] =
                 [ base EXCEPT !.pc = "done",
                               !.resp = errorHandler(AppError(401)) ]]
        ELSE req' = [req EXCEPT ![r] = [ base EXCEPT !.pc = "tokenSelect" ]]
  /\ UNCHANGED <<player_profiles, agent_analytics_cache, redis, redisClient,
                 redisConnected, refresh_tokens>>

\* SELECT * FROM refresh_tokens WHERE user_id = $1 AND is_revoked = false ...
liveTokens(table, userId) ==
  SelectSeq(table, LAMBDA row : row.user_id = userId /\ ~row.is_revoked)

\* const tokenResult = await query('SELECT * FROM refresh_tokens ...')
refreshToken_select(r) ==
  /\ req[r].pc = "tokenSelect"
  /\ \/ asyncHandlerCatch(r, DbError, "tokenSelect")
     \/ req' = [req EXCEPT ![r].pc = "tokenCompare",
                  ![r].rows = liveTokens(refresh_tokens, req[r].token.userId)]
  /\ UNCHANGED <<player_profiles, agent_analytics_cache, redis, redisClient,
                 redisConnected, refresh_tokens>>

\* for (const storedToken of tokenResult.rows) { if (isValid) ... break }
findValidToken(token, rows) ==
  LET matching == SelectSeq(rows,
                    LAMBDA row : bcrypt_compare(token, row.token_hash))
  IN IF matching = <<>> THEN NULL ELSE matching[1]

\* The bcrypt.compare loop, `if (!validToken) throw`, generateTokens.
refreshToken_compare(r) ==
  /\ req[r].pc = "tokenCompare"
  /\ LET validToken == findValidToken(req[r].token, req[r].rows)
     IN IF validToken = NULL
          THEN asyncHandlerCatch(r, AppError(401), "none")
        ELSE req' = [req EXCEPT ![r].pc = "tokenRevoke",
                       ![r].validToken = validToken,
                       ![r].tokens = generateTokens(req[r].token.userId, r)]
  /\ UNCHANGED <<player_profiles, agent_analytics_cache, redis, redisClient,
                 redisConnected, refresh_tokens>>

\* UPDATE refresh_tokens SET is_revoked = true WHERE id = $1
revokeToken(table, id) ==
  [ i \in DOMAIN table |->
      IF table[i].id = id THEN [table[i] EXCEPT !.is_revoked = TRUE]
      ELSE table[i] ]

\* await query('UPDATE refresh_tokens SET is_revoked = true WHERE id = $1')
refreshToken_revoke(r) ==
  /\ req[r].pc = "tokenRevoke"
  /\ \/ /\ asyncHandlerCatch(r, DbError, "tokenRevoke")
        /\ UNCHANGED refresh_tokens
     \/ /\ refresh_tokens' = revokeToken(refresh_tokens, req[r].validToken.id)
        /\ req' = [req EXCEPT ![r].pc = "tokenInsert"]
  /\ UNCHANGED <<player_profiles, agent_analytics_cache, redis, redisClient,
                 redisConnected>>

\* await bcrypt.hash(tokens.refreshToken, 10);
\* await query('INSERT INTO refresh_tokens ...'); res.json(...)
refreshToken_insert(r) ==
  /\ req[r].pc = "tokenInsert"
  /\ \/ /\ asyncHandlerCatch(r, DbError, "tokenInsert")
        /\ UNCHANGED refresh_tokens
     \/ /\ refresh_tokens' = Append(refresh_tokens,
             refreshTokenRow(Len(refresh_tokens) + 1, req[r].token.userId,
                             bcrypt_hash(req[r].tokens.refreshToken)))
        /\ req' = [req EXCEPT ![r].pc = "done",
              ![r].resp = [ status |-> 200, success |-> TRUE,
                            data |-> req[r].tokens ]]
  /\ UNCHANGED <<player_profiles, agent_analytics_cache, redis, redisClient,
                 redisConnected>>

-----------------------------------------------------------------------------
(* Environment *)

\* The profile collaborator changes a player's nova_score, discipline_score.
UpdateScores(p) ==
  /\ \E i \in 1..(Len(ScoreHistory) - 1) :
       /\ player_profiles[p] = ScoreHistory[i]
       /\ player_profiles' = [player_profiles EXCEPT ![p] = ScoreHistory[i + 1]]
  /\ UNCHANGED refresh_tokens
  /\ UNCHANGED <<agent_analytics_cache, redis, redisClient, redisConnected,
                 req>>

\* The TTL given to SETEX elapses and Redis drops the entry.
Expire(k) ==
  /\ redis[k] # NULL
  /\ redis' = [redis EXCEPT ![k] = NULL]
  /\ UNCHANGED refresh_tokens
  /\ UNCHANGED <<player_profiles, agent_analytics_cache, redisClient,
                 redisConnected, req>>

\* redisClient.on('connect', ...)
onRedisConnect ==
  /\ redisClient # NULL
  /\ ~redisConnected
  /\ redisConnected' = TRUE
  /\ UNCHANGED refresh_tokens
  /\ UNCHANGED <<player_profiles, agent_analytics_cache, redis, redisClient,
                 req>>

\* redisClient.on('end', ...)
onRedisEnd ==
  /\ redisClient # NULL
  /\ redisConnected
  /\ redisConnected' = FALSE
  /\ UNCHANGED refresh_tokens
  /\ UNCHANGED <<player_profiles, agent_analytics_cache, redis, redisClient,
                 req>>

Next ==
  \/ \E r \in Requests, id \in PlayerIds : getPlayerAnalytics_start(r, id)
  \/ \E r \in Requests : getPlayerAnalytics_profile(r)
  \/ \E r \in Requests : getPlayerAnalytics_cacheGet(r)
  \/ \E r \in Requests : getPlayerAnalytics_storeRead(r)
  \/ \E r \in Requests : calculatePlayerAnalytics_store(r)
  \/ \E r \in Requests : getPlayerAnalytics_cacheSet(r)
  \/ \E r \in Requests : getPlayerAnalytics_respond(r)
  \/ \E r \in Requests, playerIds \in CompareInputs :
       comparePlayers_start(r, playerIds)
  \/ \E r \in Requests : comparePlayers_players(r)
  \/ \E r \in Requests, i \in 1..NumPlayers : comparePlayers_analytics(r, i)
  \/ \E p \in ProfileIds : UpdateScores(p)
  \/ \E k \in CacheKeys : Expire(k)
  \/ onRedisConnect
  \/ onRedisEnd

Spec == Init /\ [][Next]_vars

\* Requests served one after the other: a request is accepted only when no
\* other is between its first await and its response.
InFlight(r) == req[r].pc \notin {"idle", "done"}
NoneInFlight == \A r \in Requests : ~InFlight(r)

NextSequential ==
  \/ \E r \in Requests, id \in PlayerIds :
       NoneInFlight /\ getPlayerAnalytics_start(r, id)
  \/ \E r \in Requests : getPlayerAnalytics_profile(r)
  \/ \E r \in Requests : getPlayerAnalytics_cacheGet(r)
  \/ \E r \in Requests : getPlayerAnalytics_storeRead(r)
  \/ \E r \in Requests : calculatePlayerAnalytics_store(r)
  \/ \E r \in Requests : getPlayerAnalytics_cacheSet(r)
  \/ \E r \in Requests : getPlayerAnalytics_respond(r)
  \/ \E r \in Requests, playerIds \in CompareInputs :
       NoneInFlight /\ comparePlayers_start(r, playerIds)
  \/ \E r \in Requests : comparePlayers_players(r)
  \/ \E r \in Requests, i \in 1..NumPlayers : comparePlayers_analytics(r, i)
  \/ \E p \in ProfileIds : UpdateScores(p)
  \/ \E k \in CacheKeys : Expire(k)
  \/ onRedisConnect
  \/ onRedisEnd

SpecSequential == Init /\ [][NextSequential]_vars

\* Derivation over the whole domain of the raw scores: the first player has
\* any nova_score (in tenths) and discipline_score the table admits, Redis
\* is skipped (SKIP_REDIS), and one request for that player is served.
RawScores ==
  [nova_score : 0..(10 * MaxScore), discipline_score : 0..MaxScore]

InitDerive ==
  /\ \E s \in RawScores :
       player_profiles =
         [p \in ProfileIds |-> IF p = 1 THEN s ELSE ScoreHistory[1]]
  /\ agent_analytics_cache = <<>>
  /\ redis = [k \in CacheKeys |-> NULL]
  /\ redisClient = NULL
  /\ redisConnected = FALSE
  /\ refresh_tokens = IssuedTokens
  /\ req = [r \in Requests |-> IdleRequest]

NextDerive ==
  \/ getPlayerAnalytics_start(1, 1)
  \/ getPlayerAnalytics_profile(1)
  \/ getPlayerAnalytics_cacheGet(1)
  \/ getPlayerAnalytics_storeRead(1)
  \/ calculatePlayerAnalytics_store(1)
  \/ getPlayerAnalytics_cacheSet(1)
  \/ getPlayerAnalytics_respond(1)

SpecDerive == InitDerive /\ [][NextDerive]_vars

\* The player-detail route on its own: its requests share only the profile
\* table and the Redis server with the analytics routes.
NextPlayer ==
  \/ \E r \in Requests, id \in PlayerIds : getPlayer_start(r, id)
  \/ \E r \in Requests : getPlayer_cacheGet(r)
  \/ \E r \in Requests : getPlayer_player(r)
  \/ \E r \in Requests : getPlayer_videos(r)
  \/ \E r \in Requests : getPlayer_history(r)
  \/ \E r \in Requests : getPlayer_cacheSet(r)
  \/ \E r \in Requests : getPlayer_respond(r)
  \/ \E p \in ProfileIds : UpdateScores(p)
  \/ \E k \in CacheKeys : Expire(k)
  \/ onRedisConnect
  \/ onRedisEnd

SpecPlayer == Init /\ [][NextPlayer]_vars

\* The agent routes behind their middleware; the raw scores and the Redis
\* connection stay as they are at the start.
NextRoutes ==
  \/ \E r \in Requests, id \in PlayerIds \cup {MalformedId},
        authorization \in Authorizations :
       analyticsRoute(r, id, authorization)
  \/ \E r \in Requests, playerIds \in CompareInputs,
        authorization \in Authorizations :
       compareRoute(r, playerIds, authorization)
  \/ \E r \in Requests : authenticate_user(r)
  \/ \E r \in Requests : getPlayerAnalytics_profile(r)
  \/ \E r \in Requests : getPlayerAnalytics_cacheGet(r)
  \/ \E r \in Requests : getPlayerAnalytics_storeRead(r)
  \/ \E r \in Requests : calculatePlayerAnalytics_store(r)
  \/ \E r \in Requests : getPlayerAnalytics_cacheSet(r)
  \/ \E r \in Requests : getPlayerAnalytics_respond(r)
  \/ \E r \in Requests : comparePlayers_players(r)
  \/ \E r \in Requests, i \in 1..NumPlayers : comparePlayers_analytics(r, i)

SpecRoutes == Init /\ [][NextRoutes]_vars

\* POST /api/auth/refresh on its own.
NextAuth ==
  \/ \E r \in Requests, token \in RefreshInputs : refreshToken_start(r, token)
  \/ \E r \in Requests : refreshToken_select(r)
  \/ \E r \in Requests : refreshToken_compare(r)
  \/ \E r \in Requests : refreshToken_revoke(r)
  \/ \E r \in Requests : refreshToken_insert(r)

SpecAuth == Init /\ [][NextAuth]_vars

-----------------------------------------------------------------------------
(* Properties *)

IsAnalytics(r) == req[r].handler = "getPlayerAnalytics"
Succeeded(r) == req[r].pc = "done" /\ req[r].resp.status = 200
HasRow(id) == RowsOf(agent_analytics_cache, id) # {}

\* The analytics columns a successful getPlayerAnalytics response carries.
ResponseFields(resp) ==
  [ performance_data    |-> resp.data.performance,
    consistency_score   |-> resp.data.consistency.score,
    consistency_level   |-> resp.data.consistency.level,
    consistency_trend   |-> resp.data.consistency.trend,
    work_rate_score     |-> resp.data.workRate.score,
    work_rate_level     |-> resp.data.workRate.level,
    work_rate_breakdown |-> resp.data.workRate.breakdown,
    risk_score          |-> resp.data.risk.score,
    risk_level          |-> resp.data.risk.level,
    risk_factors        |-> resp.data.risk.factors ]

\* The request's cache.set stored its record.
WroteCache(r) ==
  /\ req[r].pc = "cacheSet"
  /\ req'[r].pc = "matches"
  /\ req'[r].setOk = "true"

\* The request sends its success response.
Responds(r) ==
  /\ req[r].pc = "matches"
  /\ req'[r].pc = "done"
  /\ req'[r].resp.status = 200

\* C1: on a double miss (no fast-cache entry, no durable row) the request
\* derives a record from the nova_score and discipline_score it read, upserts
\* it, writes the same record under analytics:{id} with a TTL of 3600 seconds
\* and returns it; both layers then hold a record for the player.
C1_DoubleMissFillsBothLayers ==
  [][\A r \in Requests : IsAnalytics(r) =>
       /\ (req[r].pc = "storeRead" /\ req'[r].pc = "upsert") =>
            /\ req[r].cacheGot # "hit"
            /\ ~HasRow(req[r].id)
            /\ req'[r].analytics.performance_data.overall
                 = req[r].player.nova_score
            /\ req'[r].analytics.work_rate_score
                 = req[r].player.discipline_score
       /\ (req[r].pc = "upsert" /\ req'[r].pc = "cacheSet") =>
            LET rows == selectAnalytics(agent_analytics_cache', req[r].id)
            IN /\ Len(rows) = 1
               /\ DerivedFields(rows[1]) = DerivedFields(req[r].analytics)
       /\ (req[r].source = "derived" /\ WroteCache(r)) =>
            LET entry == redis'[analyticsKey(req[r].id)]
            IN /\ entry # NULL
               /\ entry.ttl = 3600
               /\ DerivedFields(entry.value.json)
                    = DerivedFields(req[r].analytics)
               /\ entry.value.json.last_calculated_at.clock
                    = req[r].analytics.last_calculated_at.clock
               /\ RowsOf(agent_analytics_cache', req[r].id) # {}
       /\ (req[r].source = "derived" /\ Responds(r)) =>
            ResponseFields(req'[r].resp) = DerivedFields(req[r].analytics)
    ]_vars

\* C1 witness: a request that derived on a double miss has answered, and
\* both layers hold a record for its player.
C1_Witness ==
  \E r \in Requests :
    /\ IsAnalytics(r) /\ Succeeded(r)
    /\ req[r].cacheGot = "miss" /\ req[r].source = "derived"
    /\ req[r].setOk = "true"
    /\ HasRow(req[r].id)
    /\ redis[analyticsKey(req[r].id)] # NULL

\* C2: with a durable record and no fast-cache entry, the request takes the
\* durable record without deriving, whatever its age, returns it, and the
\* fast cache then returns that same record under analytics:{id}.
C2_ReadThrough ==
  [][\A r \in Requests : IsAnalytics(r) =>
       /\ ( /\ req[r].pc = "storeRead"
            /\ req'[r].pc \notin {"storeRead", "done"}
            /\ HasRow(req[r].id) ) =>
            /\ req'[r].source = "durable"
            /\ req'[r].pc = "cacheSet"
            /\ req'[r].analytics
                 = selectAnalytics(agent_analytics_cache, req[r].id)[1]
       /\ (req[r].source = "durable" /\ WroteCache(r)) =>
            LET entry == redis'[analyticsKey(req[r].id)]
            IN /\ entry # NULL
               /\ DerivedFields(entry.value.json)
                    = DerivedFields(req[r].analytics)
               /\ entry.value.json.player_id = req[r].id
               /\ entry.value.json.last_calculated_at.clock = "db"
       /\ (req[r].source = "durable" /\ Responds(r)) =>
            ResponseFields(req'[r].resp) = DerivedFields(req[r].analytics)
    ]_vars

\* C2 witness: a request answered from a durable record that no longer
\* matches the player's raw scores, and the fast cache holds that record.
C2_Witness ==
  \E r \in Requests :
    /\ IsAnalytics(r) /\ Succeeded(r)
    /\ req[r].cacheGot = "miss" /\ req[r].source = "durable"
    /\ req[r].setOk = "true"
    /\ req[r].analytics.work_rate_score # req[r].player.discipline_score
    /\ redis[analyticsKey(req[r].id)] # NULL
    /\ redis[analyticsKey(req[r].id)].value.json.player_id = req[r].id

\* C3: a request that found analytics:{id} in the fast cache answers from
\* that entry; it reads no durable record, derives nothing, upserts nothing
\* and writes nothing to the fast cache.
C3_FastHitShortCircuits ==
  \A r \in Requests : (IsAnalytics(r) /\ req[r].cacheGot = "hit") =>
    /\ req[r].pc \in {"matches", "done"}
    /\ req[r].source = "fast"
    /\ req[r].setCond = "none" /\ req[r].setOk = "none"
    /\ req[r].failedAt \in {"none", "matches"}
    /\ Succeeded(r) =>
         ResponseFields(req[r].resp) = DerivedFields(req[r].analytics)

\* C3 witness: a request answered from a fast-cache hit.
C3_Witness ==
  \E r \in Requests :
    IsAnalytics(r) /\ Succeeded(r) /\ req[r].cacheGot = "hit"

\* C4: when the fast cache is not connected, was never configured, or its
\* get or set throws, cache.get yields null and cache.set yields false, and
\* the request still succeeds with a record from the durable store or from
\* derivation unless a database query fails.
C4_CacheFailureInvisible ==
  \A r \in Requests : IsAnalytics(r) =>
    /\ req[r].cacheGot \in {"down", "threw"} => req[r].source # "fast"
    /\ req[r].setCond \in {"down", "threw"} => req[r].setOk = "false"
    /\ ( /\ req[r].pc = "done"
         /\ \/ req[r].cacheGot \in {"down", "threw"}
            \/ req[r].setCond \in {"down", "threw"} ) =>
         \/ req[r].failedAt # "none"
         \/ /\ req[r].resp.status = 200
            /\ req[r].source \in {"durable", "derived"}
            /\ ResponseFields(req[r].resp) = DerivedFields(req[r].analytics)

\* C4 witness: redisClient.get threw, cache.set found the cache disconnected
\* and the request succeeded from the durable store.
C4_Witness ==
  \E r \in Requests :
    /\ IsAnalytics(r) /\ Succeeded(r)
    /\ req[r].cacheGot = "threw" /\ req[r].setCond = "down"
    /\ req[r].source = "durable"

\* C5: a request whose upsert after derivation failed still answers with a
\* success carrying the freshly derived record.
C5_WriteBackFailureNotPropagated ==
  \A r \in Requests :
    (IsAnalytics(r) /\ req[r].pc = "done" /\ req[r].failedAt = "upsert") =>
      /\ req[r].resp.status = 200
      /\ ResponseFields(req[r].resp) = DerivedFields(req[r].analytics)

\* C6: a request whose read of the durable analytics store threw ends with
\* the 500 response of the error handler, has derived nothing and has
\* written nothing to the fast cache.
C6_StoreReadFailureIsFatal ==
  \A r \in Requests : (IsAnalytics(r) /\ req[r].failedAt = "storeRead") =>
    /\ req[r].pc = "done"
    /\ req[r].resp.status = 500
    /\ req[r].resp.success = FALSE
    /\ req[r].resp.data = NULL
    /\ req[r].analytics = NULL
    /\ req[r].source = "none"
    /\ req[r].setCond = "none" /\ req[r].setOk = "none"

\* C6 witness: the durable read of a request threw after a fast-cache miss.
C6_Witness ==
  \E r \in Requests :
    /\ IsAnalytics(r) /\ req[r].failedAt = "storeRead"
    /\ req[r].cacheGot = "miss"

\* The request has run the INSERT of calculatePlayerAnalytics.
Upserted(r) ==
  /\ IsAnalytics(r)
  /\ req[r].source = "derived"
  /\ req[r].pc \in {"cacheSet", "matches", "done"}
  /\ req[r].failedAt # "upsert"

\* C7: two requests for one player that both derived on a double miss, the
\* raw scores never having changed, both succeed unless a query fails, and
\* the store then holds exactly one record for the player, with the derived
\* fields either request computed.
C7_ConcurrentDoubleMiss ==
  \A p \in ProfileIds : player_profiles[p] = ScoreHistory[1] =>
    \A r1, r2 \in Requests :
      ( /\ r1 # r2
        /\ Upserted(r1) /\ Upserted(r2)
        /\ req[r1].id = p /\ req[r2].id = p ) =>
        LET rows == selectAnalytics(agent_analytics_cache, p)
        IN /\ Len(rows) = 1
           /\ DerivedFields(rows[1]) = DerivedFields(req[r1].analytics)
           /\ DerivedFields(rows[1]) = DerivedFields(req[r2].analytics)
           /\ rows[1].performance_data.overall = ScoreHistory[1].nova_score
           /\ (req[r1].pc = "done" /\ req[r1].failedAt = "none") =>
                /\ req[r1].resp.status = 200
                /\ ResponseFields(req[r1].resp) = DerivedFields(rows[1])

\* C7 witness: two requests for one player both derived, both upserted and
\* both succeeded.
C7_Witness ==
  \E r1, r2 \in Requests :
    /\ r1 # r2
    /\ Upserted(r1) /\ Upserted(r2)
    /\ req[r1].id = req[r2].id
    /\ Succeeded(r1) /\ Succeeded(r2)
    /\ player_profiles[req[r1].id] = ScoreHistory[1]

\* C8: the durable analytics store holds at most one record per player.
C8_SingleRowPerPlayer ==
  \A id \in PlayerIds :
    Cardinality(RowsOf(agent_analytics_cache, id)) <= 1

\* C8 witness: two requests have upserted different records for one player.
C8_Witness ==
  \E r1, r2 \in Requests :
    /\ Upserted(r1) /\ Upserted(r2)
    /\ req[r1].id = req[r2].id
    /\ req[r1].analytics # req[r2].analytics
    /\ HasRow(req[r1].id)

\* C9: only a request that found neither a fast-cache entry nor a durable
\* record derives; a request that started when a durable record existed
\* never derives and never upserts, whatever the raw scores are by then.
C9_RecomputationOnlyOnMiss ==
  \A r \in Requests : IsAnalytics(r) =>
    /\ req[r].source = "derived" =>
         /\ req[r].cacheGot \in {"miss", "down", "threw"}
         /\ ~req[r].rowAtStart
    /\ req[r].rowAtStart =>
         /\ req[r].pc # "upsert"
         /\ req[r].source \in {"none", "fast", "durable"}
         /\ req[r].source = "durable" => HasRow(req[r].id)

\* C9 witness: after the raw scores changed and the fast-cache entry was
\* gone, a request was answered from the durable record and copied it into
\* the fast cache.
C9_Witness ==
  \E r \in Requests :
    /\ IsAnalytics(r) /\ Succeeded(r)
    /\ req[r].rowAtStart
    /\ req[r].cacheGot = "miss" /\ req[r].source = "durable"
    /\ req[r].setOk = "true"
    /\ req[r].player = ScoreHistory[2]
    /\ req[r].analytics.performance_data.overall = ScoreHistory[1].nova_score

\* C10 as stated: a request that started when a record existed and found no
\* fast-cache entry answers with a record derived from the raw scores it
\* read.
C10_RefreshedAfterTtl ==
  \A r \in Requests :
    ( /\ IsAnalytics(r) /\ Succeeded(r)
      /\ req[r].rowAtStart
      /\ req[r].cacheGot = "miss" ) =>
      /\ req[r].resp.data.performance.overall = req[r].player.nova_score
      /\ req[r].resp.data.workRate.score = req[r].player.discipline_score

\* C10 amended: a record is created by the upsert of the first double miss;
\* a request that finds a durable record returns it as stored, not a fresh
\* derivation; and a record a request has written or read is still in the
\* store.
C10_RecordLifecycle ==
  \A r \in Requests : IsAnalytics(r) =>
    /\ Upserted(r) => HasRow(req[r].id)
    /\ req[r].source = "durable" =>
         /\ HasRow(req[r].id)
         /\ req[r].analytics.player_id = req[r].id
         /\ req[r].analytics.last_calculated_at = DbDate
         /\ Succeeded(r) =>
              ResponseFields(req[r].resp) = DerivedFields(req[r].analytics)

\* C10 witness: a request that started after the raw scores changed was
\* answered with the record derived from the earlier scores.
C10_Witness ==
  \E r \in Requests :
    /\ IsAnalytics(r) /\ Succeeded(r)
    /\ req[r].source = "durable"
    /\ req[r].resp.data.novaScore = ScoreHistory[2].nova_score
    /\ req[r].resp.data.performance.overall = ScoreHistory[1].nova_score

-----------------------------------------------------------------------------
(* Properties of comparePlayers *)

IsCompare(r) == req[r].handler = "comparePlayers"

\* The player records the lookup of a request body finds.
Resolved(playerIds) == Range(playerIds.items) \cap ProfileIds

\* C13: the players of a successful comparePlayers response are in the
\* order of the playerIds of the request.
C13_PreservesCallerOrder ==
  \A r \in Requests : (IsCompare(r) /\ Succeeded(r)) =>
    LET views == req[r].resp.data.players
        ids == req[r].playerIds.items
    IN /\ Len(views) = Len(ids)
       /\ \A k \in DOMAIN views : views[k].id = ids[k]

C15_TooFewResolvedIsInvalidArgument ==
  \A r \in Requests :
    ( /\ IsCompare(r) /\ req[r].pc = "done" /\ req[r].failedAt = "none"
      /\ req[r].playerIds.kind = "array"
      /\ Len(req[r].playerIds.items) \in 2..4
      /\ Cardinality(Resolved(req[r].playerIds)) < 2 ) =>
      req[r].resp.status = 400

\* The analytics columns a comparison view shows.
ViewOf(a) ==
  [ consistency |-> [score |-> a.consistency_score,
                     level |-> a.consistency_level],
    workRate |-> [score |-> a.work_rate_score, level |-> a.work_rate_level],
    risk |-> [score |-> a.risk_score, level |-> a.risk_level] ]

\* A step taken by request r as comparePlayers.
CompareStep(r) == req'[r] # req[r] /\ req'[r].handler = "comparePlayers"

\* C16: no step of comparePlayers changes the durable store or the fast
\* cache, calls cache.get or cache.set, or derives; each lookup of the
\* fan-out takes the stored record of its player or null; and a view shows
\* the consistency, workRate and risk of that record, or null for all three
\* when there was none.
C16_DurableStoreOnly ==
  [][\A r \in Requests : CompareStep(r) =>
       /\ UNCHANGED <<agent_analytics_cache, redis, player_profiles>>
       /\ req'[r].cacheGot = "none" /\ req'[r].setCond = "none"
       /\ req'[r].source = "none" /\ req'[r].analytics = NULL
       /\ \A i \in DOMAIN req'[r].analyticsData :
            ( /\ req[r].pc = "analytics"
              /\ req[r].analyticsData[i] = NULL
              /\ req'[r].analyticsData[i] # NULL ) =>
              LET id == req[r].rows[i].id
                  stored == selectAnalytics(agent_analytics_cache, id)
              IN /\ req'[r].analyticsData[i].playerId = id
                 /\ req'[r].analyticsData[i].analytics =
                      IF HasRow(id) THEN stored[1] ELSE NULL
       /\ (req'[r].pc = "done" /\ req'[r].resp.status = 200) =>
            \A k \in DOMAIN req'[r].resp.data.players :
              LET view == req'[r].resp.data.players[k]
                  a == req'[r].analyticsData[k].analytics
              IN /\ req'[r].analyticsData[k].playerId = view.id
                 /\ a = NULL =>
                      /\ view.consistency = NULL
                      /\ view.workRate = NULL
                      /\ view.risk = NULL
                 /\ a # NULL =>
                      /\ view.consistency = ViewOf(a).consistency
                      /\ view.workRate = ViewOf(a).workRate
                      /\ view.risk = ViewOf(a).risk
    ]_vars

\* C16 witness: a comparison answered with one player that has a durable
\* record and one that has none, the fast cache holding an entry meanwhile.
C16_Witness ==
  \E r \in Requests :
    /\ IsCompare(r) /\ Succeeded(r)
    /\ \E k1, k2 \in DOMAIN req[r].resp.data.players :
         /\ req[r].resp.data.players[k1].risk = NULL
         /\ req[r].resp.data.players[k1].consistency = NULL
         /\ req[r].resp.data.players[k2].risk # NULL
         /\ ~HasRow(req[r].resp.data.players[k1].id)
    /\ \E k \in CacheKeys : redis[k] # NULL

\* C17: a view's overall is the rounded mean of the six attributes when all
\* six are present, and null when the player has no attribute row or one
\* of the six is missing.
C17_OverallRating ==
  \A r \in Requests : (IsCompare(r) /\ Succeeded(r)) =>
    \A k \in DOMAIN req[r].resp.data.players :
      LET view == req[r].resp.data.players[k]
          row == req[r].rows[k]
          six == <<row.pace, row.shooting, row.passing, row.dribbling,
                   row.defending, row.physical>>
      IN IF \A j \in 1..6 : six[j] # <<>>
           THEN LET sum == six[1][1] + six[2][1] + six[3][1] + six[4][1]
                           + six[5][1] + six[6][1]
                IN /\ Len(view.overall) = 1
                   /\ 6 * view.overall[1] <= sum + 3
                   /\ sum + 3 < 6 * view.overall[1] + 6
           ELSE view.overall = <<>>

\* C18: whatever the order in which the lookups of the fan-out resolve,
\* every lookup is for the player of its own row, and every view of the
\* response shows the record found for its own player, or null when none
\* was found for it.
C18_FanOutOrderInsensitive ==
  \A r \in Requests : IsCompare(r) =>
    /\ \A i \in DOMAIN req[r].analyticsData :
         req[r].analyticsData[i] # NULL =>
           /\ req[r].analyticsData[i].playerId = req[r].rows[i].id
           /\ req[r].analyticsData[i].analytics # NULL =>
                req[r].analyticsData[i].analytics.player_id = req[r].rows[i].id
    /\ Succeeded(r) =>
         /\ Range(req[r].completed) = DOMAIN req[r].rows
         /\ \A k \in DOMAIN req[r].resp.data.players :
              LET view == req[r].resp.data.players[k]
                  a == req[r].analyticsData[k].analytics
              IN /\ view.id = req[r].rows[k].id
                 /\ view.novaScore = req[r].rows[k].nova_score
                 /\ IF a = NULL
                      THEN view.consistency = NULL /\ view.workRate = NULL
                           /\ view.risk = NULL
                      ELSE /\ a.player_id = view.id
                           /\ view.consistency = ViewOf(a).consistency
                           /\ view.workRate = ViewOf(a).workRate
                           /\ view.risk = ViewOf(a).risk

\* C18 witness: the lookup for the second row resolved before the lookup
\* for the first, the first row's player has no record and the second's
\* has one, and the response was sent.
C18_Witness ==
  \E r \in Requests :
    /\ IsCompare(r) /\ Succeeded(r)
    /\ req[r].completed = <<2, 1>>
    /\ req[r].resp.data.players[1].risk = NULL
    /\ req[r].resp.data.players[2].risk # NULL

-----------------------------------------------------------------------------
(* Properties of the derivation *)

\* The request holds a record it derived.
Derived(r) ==
  IsAnalytics(r) /\ req[r].source = "derived" /\ req[r].analytics # NULL

\* C19: the record derived from nova_score n (in tenths) and
\* discipline_score d has overall n, consistency score the integer nearest
\* to 0.9 times the nova score (halves upwards), work-rate score d and risk
\* score 100 minus the integer nearest to (100 - d) / 2 (halves upwards);
\* the response carries them; 90.0 and 95 give 90.0, 81, 95 elite, 97 low.
C19_DerivedScores ==
  \A r \in Requests : Derived(r) =>
    LET n == req[r].player.nova_score
        d == req[r].player.discipline_score
        a == req[r].analytics
        c == a.consistency_score
        k == 100 - a.risk_score
    IN /\ a.performance_data.overall = n
       /\ 200 * c - 100 <= 18 * n /\ 18 * n < 200 * c + 100
       /\ a.work_rate_score = d
       /\ 2 * k - 1 <= 100 - d /\ 100 - d < 2 * k + 1
       /\ (n = 900 /\ d = 95) =>
            /\ a.performance_data.overall = 900
            /\ c = 81
            /\ a.work_rate_score = 95 /\ a.work_rate_level = "elite"
            /\ a.risk_score = 97 /\ a.risk_level = "low"
       /\ Succeeded(r) =>
            /\ req[r].resp.data.performance.overall = n
            /\ req[r].resp.data.consistency.score = c
            /\ req[r].resp.data.workRate.score = d
            /\ req[r].resp.data.workRate.level = a.work_rate_level
            /\ req[r].resp.data.risk.score = a.risk_score
            /\ req[r].resp.data.risk.level = a.risk_level

\* C19 witness: a double miss with nova_score 90.0 and discipline_score 95
\* was answered with consistency 81, work rate 95 elite and risk 97 low.
C19_Witness ==
  \E r \in Requests :
    /\ Derived(r) /\ Succeeded(r)
    /\ req[r].player = [nova_score |-> 900, discipline_score |-> 95]
    /\ req[r].resp.data.performance.overall = 900
    /\ req[r].resp.data.consistency.score = 81
    /\ req[r].resp.data.workRate = [score |-> 95, level |-> "elite",
         breakdown |-> req[r].analytics.work_rate_breakdown]
    /\ req[r].resp.data.risk.score = 97
    /\ req[r].resp.data.risk.level = "low"

\* C20: the derived consistency level is high exactly when the nova score
\* is at least 80, medium exactly when it is at least 60 and below 80, and
\* low exactly when it is below 60.
C20_ConsistencyLevelBoundaries ==
  \A r \in Requests : Derived(r) =>
    LET n == req[r].player.nova_score
        level == req[r].analytics.consistency_level
    IN /\ level \in {"high", "medium", "low"}
       /\ level = "high" <=> n >= 800
       /\ level = "medium" <=> (600 <= n /\ n < 800)
       /\ level = "low" <=> n < 600
       /\ n = 590 => level = "low"
       /\ n \in {600, 790} => level = "medium"
       /\ n \in {800, 1000} => level = "high"
       /\ Succeeded(r) => req[r].resp.data.consistency.level = level

\* C20 witness: a double miss with nova_score exactly 80.0 was answered
\* with consistency level high.
C20_Witness ==
  \E r \in Requests :
    /\ Derived(r) /\ Succeeded(r)
    /\ req[r].player.nova_score = 800
    /\ req[r].resp.data.consistency.level = "high"

\* C21 as stated: the derived risk level is low exactly when the record's
\* risk score is at least 80, medium exactly when it is at least 60 and
\* below 80, and high exactly when it is below 60.
C21_RiskLevelByRiskScore ==
  \A r \in Requests : Derived(r) =>
    LET score == req[r].analytics.risk_score
        level == req[r].analytics.risk_level
    IN /\ level = "low" <=> score >= 80
       /\ level = "medium" <=> (60 <= score /\ score < 80)
       /\ level = "high" <=> score < 60

\* C21 amended: the derived risk level is low exactly when the
\* discipline_score is at least 80, medium exactly when it is at least 60
\* and below 80, and high exactly when it is below 60; the risk score is
\* never below 50, and the response carries the level.
C21_RiskLevelByDiscipline ==
  \A r \in Requests : Derived(r) =>
    LET d == req[r].player.discipline_score
        score == req[r].analytics.risk_score
        level == req[r].analytics.risk_level
    IN /\ level \in {"low", "medium", "high"}
       /\ level = "low" <=> d >= 80
       /\ level = "medium" <=> (60 <= d /\ d < 80)
       /\ level = "high" <=> d < 60
       /\ 50 <= score /\ score <= 100
       /\ Succeeded(r) => req[r].resp.data.risk.level = level

\* C21 witness: a double miss with discipline_score 60 was answered with
\* risk score 80 and risk level medium.
C21_Witness ==
  \E r \in Requests :
    /\ Derived(r) /\ Succeeded(r)
    /\ req[r].player.discipline_score = 60
    /\ req[r].resp.data.risk.score = 80
    /\ req[r].resp.data.risk.level = "medium"

\* C22: the four components of the derived work-rate breakdown are
\* non-negative integers whose sum is within 4 of the work-rate score.
C22_BreakdownDrift ==
  \A r \in Requests : Derived(r) =>
    LET b == req[r].analytics.work_rate_breakdown
        score == req[r].analytics.work_rate_score
        sum == b.attendance + b.taskCompletion + b.uploadFrequency
               + b.discipline
    IN /\ b.attendance \in Nat /\ b.taskCompletion \in Nat
       /\ b.uploadFrequency \in Nat /\ b.discipline \in Nat
       /\ score = req[r].player.discipline_score
       /\ sum - score <= 4 /\ score - sum <= 4
       /\ Succeeded(r) => req[r].resp.data.workRate.breakdown = b

\* C22 witness: a double miss was answered with a breakdown whose
\* components do not sum to the work-rate score.
C22_Witness ==
  \E r \in Requests :
    /\ Derived(r) /\ Succeeded(r)
    /\ LET b == req[r].resp.data.workRate.breakdown
       IN b.attendance + b.taskCompletion + b.uploadFrequency + b.discipline
            # req[r].resp.data.workRate.score

-----------------------------------------------------------------------------
(* Properties of the lookup path *)

\* C24: a getPlayerAnalytics request for an identifier without a profile
\* row ends with the 404 of the error handler unless the profile query
\* itself throws; it never calls cache.get or cache.set, reads or upserts
\* no analytics record, and so leaves both layers as they were.
C24_UnknownPlayerNotFound ==
  \A r \in Requests : (IsAnalytics(r) /\ req[r].id \notin ProfileIds) =>
    /\ req[r].pc \in {"profile", "done"}
    /\ req[r].player = NULL /\ req[r].analytics = NULL
    /\ req[r].cacheGot = "none" /\ req[r].source = "none"
    /\ req[r].setCond = "none" /\ req[r].setOk = "none"
    /\ ~HasRow(req[r].id)
    /\ redis[analyticsKey(req[r].id)] = NULL
    /\ req[r].pc = "done" =>
         /\ req[r].resp.success = FALSE
         /\ req[r].failedAt \in {"none", "profile"}
         /\ req[r].failedAt = "none" => req[r].resp.status = 404

\* C24 witness: a request for an unknown player was answered 404 while
\* both layers hold a record of another player.
C24_Witness ==
  \E r \in Requests :
    /\ IsAnalytics(r) /\ req[r].pc = "done"
    /\ req[r].id \notin ProfileIds
    /\ req[r].resp.status = 404
    /\ agent_analytics_cache # <<>>
    /\ \E k \in CacheKeys : redis[k] # NULL

\* C25: a request has read the profile row only after its fast-cache lookup
\* and its durable lookup have both missed.
C25_ProfileLookupOnlyAfterDoubleMiss ==
  \A r \in Requests : (IsAnalytics(r) /\ req[r].player # NULL) =>
    /\ req[r].cacheGot \in {"miss", "down", "threw"}
    /\ req[r].source = "derived"

\* C27: whenever the fast cache holds analytics:{id} and the durable store
\* holds a record for id, the two have the same derived fields.
C27_CacheLayersAgree ==
  \A id \in ProfileIds :
    (redis[analyticsKey(id)] # NULL /\ HasRow(id)) =>
      DerivedFields(JSONparse(redis[analyticsKey(id)].value))
        = DerivedFields(selectAnalytics(agent_analytics_cache, id)[1])

\* C28: the fast cache holds analytics:{id} only if the durable store holds
\* a record for id, and a request whose upsert failed has not called
\* cache.set.
C28_FastEntryImpliesDurableRecord ==
  /\ \A id \in PlayerIds :
       redis[analyticsKey(id)] # NULL =>
         /\ HasRow(id)
         /\ JSONparse(redis[analyticsKey(id)].value).performance_data.overall
              \in { ScoreHistory[i].nova_score : i \in DOMAIN ScoreHistory }
  /\ \A r \in Requests : (IsAnalytics(r) /\ req[r].failedAt = "upsert") =>
       /\ req[r].pc = "done"
       /\ req[r].setCond = "none" /\ req[r].setOk = "none"

\* C28 witness: with the fast cache connected, the upsert of a request
\* failed after a fast-cache miss and no entry exists for its player, while
\* another player has both an entry and a record.
C28_Witness ==
  \E r \in Requests :
    /\ IsAnalytics(r) /\ req[r].failedAt = "upsert"
    /\ req[r].cacheGot = "miss"
    /\ redis[analyticsKey(req[r].id)] = NULL
    /\ \E id \in ProfileIds : redis[analyticsKey(id)] # NULL /\ HasRow(id)

-----------------------------------------------------------------------------
(* Properties of the player-detail route *)

IsPlayer(r) == req[r].handler = "getPlayer"

\* The step taken by request r is a step of getPlayer.
PlayerStep(r) == req'[r] # req[r] /\ req'[r].handler = "getPlayer"

\* C23: player-detail caching. A getPlayer request writes to no durable
\* table. When cache.get finds an entry under player:{id} the request is
\* answered at once with the cached response, marked cached, and no query is
\* made. On a miss for an existing player the only write is cache.set's: the
\* entry player:{id} becomes the response, with a TTL of 300 seconds (no entry
\* is written when Redis is down or rejects the command), and the response
\* sent is that same response. For an unknown player the request ends with
\* 404 (500 if the player query itself fails) and no entry is written.
C23_PlayerDetailCaching ==
  [][\A r \in Requests : PlayerStep(r) =>
       LET key == playerKey(req'[r].id)
           up == redisClient # NULL /\ redisConnected
       IN /\ UNCHANGED <<player_profiles, agent_analytics_cache>>
          /\ req[r].pc = "playerCacheGet" /\ up /\ redis[key] # NULL
               /\ req'[r].cacheGot # "threw"
             => /\ req'[r].pc = "done"
                /\ req'[r].resp = [ status |-> 200, success |-> TRUE,
                                    data |-> redis[key].value.json,
                                    cached |-> TRUE ]
                /\ req'[r].player = NULL
                /\ req'[r].failedAt = "none"
                /\ redis' = redis
          /\ req'[r].cacheGot = "hit" => req'[r].player = NULL
          /\ req[r].pc = "playerCacheSet"
             => /\ req[r].id \in ProfileIds
                /\ req[r].cacheGot # "hit"
                /\ IF up /\ req'[r].setCond = "up"
                     THEN /\ req'[r].setOk = "true"
                          /\ redis' = [redis EXCEPT ![key] =
                               [ value |-> [json |->
                                    JSONRoundTrip(req[r].responseData)],
                                 ttl |-> 300 ]]
                   ELSE redis' = redis
          /\ req[r].pc # "playerCacheSet" => redis' = redis
          /\ req[r].pc = "playerRespond"
             => req'[r].resp = [ status |-> 200, success |-> TRUE,
                                 data |-> req[r].responseData ]
          /\ req[r].id \notin ProfileIds /\ req'[r].pc = "done"
               /\ req[r].pc # "idle"
             => /\ req'[r].resp.status \in {404, 500}
                /\ req'[r].resp.status = 500 => req'[r].failedAt = "player"
                /\ req'[r].setCond = "none"
  ]_vars

\* A miss for player 1 was cached and answered, and a later request for the
\* player was answered from that entry.
C23_Witness ==
  \E r, q \in Requests :
    /\ IsPlayer(r) /\ IsPlayer(q)
    /\ req[r].pc = "done" /\ req[r].cacheGot = "miss"
    /\ req[r].setOk = "true" /\ req[r].resp.status = 200
    /\ req[q].pc = "done" /\ req[q].cacheGot = "hit"
    /\ req[q].resp.status = 200
    /\ redis[playerKey(1)] # NULL
    /\ redis[playerKey(1)].ttl = PlayerTTL

-----------------------------------------------------------------------------
(* Properties of the agent routes *)

Routed(r) == req[r].route # "none"

\* The request carried a valid token of an existing, active agent or admin.
ValidAgent(authorization) ==
  /\ authorization.scheme = "Bearer"
  /\ authorization.token.kind = "valid"
  /\ authorization.token.userId \in DOMAIN users
  /\ users[authorization.token.userId].is_active
  /\ users[authorization.token.userId].user_type \in {"agent", "admin"}

\* The step taken by request r on an agent route.
RouteStep(r) == req'[r] # req[r] /\ req'[r].route # "none"

-----------------------------------------------------------------------------
(* Properties of refreshToken *)

IsRefresh(r) == req[r].handler = "refreshToken"

\* The requests that redeemed token t: answered 200 with a new pair.
Redeemed(t) ==
  { r \in Requests :
      IsRefresh(r) /\ req[r].pc = "done" /\ req[r].token = t
        /\ req[r].resp.status = 200 }

\* C30: refresh tokens are single-use. No refresh token is redeemed by more
\* than one request, and once a request has redeemed a token every other
\* request that presented it, one already in flight included, ends with 401
\* (or with the 500 of a query of its own that failed).
C30_RefreshTokenSingleUse ==
  \A t \in RefreshInputs \ {NULL} :
    /\ Cardinality(Redeemed(t)) <= 1
    /\ \A r \in Redeemed(t), q \in Requests :
         q # r /\ IsRefresh(q) /\ req[q].token = t /\ req[q].pc = "done"
           => req[q].resp.status = IF req[q].failedAt = "none" THEN 401
                                   ELSE 500
====
